---- MODULE Spec2Model ----
(***************************************************************************)
(* A model of the RAG command-line tool: the environment validation        *)
(* (check_env_vars), the DocumentSearcher (constructor and                 *)
(* search_documents), the chat entry point (format_context and the         *)
(* interactive loop of main) and the ingest entry point.                   *)
(*                                                                         *)
(* Text is modelled as a sequence of tokens (short strings); the external  *)
(* services (embedding service, vector store, chat model, standard input)  *)
(* are the environment of the program and answer nondeterministically.     *)
(***************************************************************************)
EXTENDS Integers, Sequences, FiniteSets, TLC

VARIABLES
    pc,             \* position of the running entry point / call
    env,            \* os.environ: variable name -> value (NoneVal when unset)
    provider,       \* the provider argument
    ret,            \* the sequence the last search_documents call returned
    raised,         \* the exception that left the last call (NoException when none)
    caller,         \* who constructs the searcher: chat's main, or a client of the class
    self,           \* the DocumentSearcher's attributes
    events,         \* the calls the constructor has made, in order
    collection,     \* the rows of the collection in the vector store
    store_reply,    \* what the store answered to the last similarity search
    last_k,         \* the k of the last search_documents call
    searches,       \* search_documents calls made by the client
    llm,            \* chat's main: the chat model
    question,       \* chat's main: the line read
    relevant_docs,  \* chat's main: what search_documents returned this turn
    context,        \* the string format_context returned
    response,       \* chat's main: the chat model's answer
    printed,        \* the last message printed
    stdin_eof,      \* standard input has reported end-of-input
    lines_read,     \* lines read from standard input
    search_calls,   \* search_documents calls of the current turn
    llm_calls,      \* chain.invoke calls of the current turn
    search_outcome, \* how this turn's search ended: "none", "returned", "raised"
    docs_with_scores, \* the argument of format_context
    args,           \* ingest's main: the parsed arguments
    docs,           \* ingest's main: the pages loaded from the PDF
    split_docs,     \* ingest's main: the chunks
    collections,    \* the vector store: collection name -> rows
    store_calls,    \* calls of the current ingest run that write to the vector store
    status,         \* how the current ingest run ended, "running" until then
    runs,           \* ingest runs started
    last_completed, \* history: per collection, the rows written by the last run that completed
    dirty           \* history: per collection, a run failed inside the write since then

(***************************************************************************)
(* Values                                                                  *)
(***************************************************************************)

\* os.getenv(var) of a variable that is not set
NoneVal == "<None>"

\* the values a variable may hold: unset, set to the empty string, set
EnvValues == {NoneVal, "", "v"}

\* bool(value) of what os.getenv returned: None and "" are falsy
Truthy(value) == value # NoneVal /\ value # ""

\* str(value), as an f-string renders it
Str(value) == IF value = NoneVal THEN "None" ELSE value

db_vars == <<"POSTGRES_USER", "POSTGRES_PASSWORD", "POSTGRES_HOST", "POSTGRES_PORT", "POSTGRES_DB">>

ApiKeyVars == {"GOOGLE_API_KEY", "OPENAI_API_KEY"}

EnvNames == {db_vars[i] : i \in DOMAIN db_vars} \cup ApiKeyVars

\* the --provider choices of the entry points, and one value outside them
Choices == {"google", "openai"}

Providers == Choices \cup {"other"}

NoException == [type |-> "None", msg |-> <<>>, cause |-> "None"]

Exception(type, msg, cause) == [type |-> type, msg |-> msg, cause |-> cause]

\* sep.join(parts): parts is a sequence of strings, a string a sequence of tokens
RECURSIVE Join(_, _)
Join(parts, sep) ==
    IF Len(parts) = 0 THEN <<>>
    ELSE IF Len(parts) = 1 THEN parts[1]
    ELSE parts[1] \o sep \o Join(Tail(parts), sep)

\* a list of names as a list of one-token strings
Strings(names) == [i \in DOMAIN names |-> <<names[i]>>]

getenv(environ, var) == environ[var]

DbMissingPrefix == "Variaveis de banco de dados ausentes: "

GoogleKeyMsg == <<"Para o provedor 'google', a GOOGLE_API_KEY e necessaria.">>

OpenAIKeyMsg == <<"Para o provedor 'openai', a OPENAI_API_KEY e necessaria.">>

\* a plausible slip: either key satisfies the provider's key check
check_env_vars_either_key(p, environ) ==
    LET missing == SelectSeq(db_vars, LAMBDA var : ~Truthy(getenv(environ, var)))
        anyKey == Truthy(getenv(environ, "GOOGLE_API_KEY")) \/ Truthy(getenv(environ, "OPENAI_API_KEY"))
    IN  IF missing # <<>>
        THEN Exception("EnvironmentError", <<DbMissingPrefix>> \o Join(Strings(missing), <<", ">>), "None")
        ELSE IF p = "google" /\ ~anyKey
        THEN Exception("EnvironmentError", GoogleKeyMsg, "None")
        ELSE IF p = "openai" /\ ~anyKey
        THEN Exception("EnvironmentError", OpenAIKeyMsg, "None")
        ELSE NoException

\* check_env_vars(provider): the exception it raises, NoException when it returns
check_env_vars(p, environ) ==
    LET all == \A i \in DOMAIN db_vars : Truthy(getenv(environ, db_vars[i]))
        missing == SelectSeq(db_vars, LAMBDA var : ~Truthy(getenv(environ, var)))
    IN  IF ~all
        THEN Exception("EnvironmentError", <<DbMissingPrefix>> \o Join(Strings(missing), <<", ">>), "None")
        ELSE IF p = "google" /\ ~Truthy(getenv(environ, "GOOGLE_API_KEY"))
        THEN Exception("EnvironmentError", GoogleKeyMsg, "None")
        ELSE IF p = "openai" /\ ~Truthy(getenv(environ, "OPENAI_API_KEY"))
        THEN Exception("EnvironmentError", OpenAIKeyMsg, "None")
        ELSE NoException

coreVars == <<pc, env, provider, ret, raised>>

searcherVars == <<caller, self, events, collection, store_reply, last_k, searches>>

chatVars == <<llm, question, relevant_docs, context, response, printed, stdin_eof, lines_read, search_calls, llm_calls, search_outcome>>

ingestVars == <<args, docs, split_docs, collections, store_calls, status, runs, last_completed, dirty>>

vars == <<coreVars, searcherVars, chatVars, docs_with_scores, ingestVars>>

\* the names of the collections in the vector store
CollectionNames == {"documentos_pdf", "test"}

NoArgs == [provider |-> "google", path |-> "document.pdf", collection |-> "documentos_pdf"]

\* ingest's variables before any run
IngestIdle ==
    /\ args = NoArgs
    /\ docs = <<>>
    /\ split_docs = <<>>
    /\ collections = [n \in CollectionNames |-> <<>>]
    /\ store_calls = 0
    /\ status = "none"
    /\ runs = 0
    /\ last_completed = [n \in CollectionNames |-> <<>>]
    /\ dirty = [n \in CollectionNames |-> FALSE]

NoSelf == [embeddings |-> NoneVal, connection_string |-> <<>>, collection_name |-> NoneVal, db |-> NoneVal]

NoReply == [docs |-> <<>>, error |-> NoException]

\* the searcher's variables before any searcher exists
SearcherIdle ==
    /\ caller = "none"
    /\ self = NoSelf
    /\ events = <<>>
    /\ collection = <<>>
    /\ store_reply = NoReply
    /\ last_k = 0
    /\ searches = 0

\* chat's variables before main has run
ChatIdle ==
    /\ llm = NoneVal
    /\ question = <<>>
    /\ relevant_docs = <<>>
    /\ context = <<>>
    /\ response = NoneVal
    /\ printed = <<>>
    /\ stdin_eof = FALSE
    /\ lines_read = 0
    /\ search_calls = 0
    /\ llm_calls = 0
    /\ search_outcome = "none"


(***************************************************************************)
(* format_context                                                          *)
(***************************************************************************)

\* the separator format_context joins the entries with
SEP == "\n\n---\n\n"

\* the default of the metadata lookups, 'N/A', as a path
NA == <<"N", "/", "A">>

\* doc.metadata.get(key, default)
metadata_get(metadata, key, default) == IF key \in DOMAIN metadata THEN metadata[key] ELSE default

\* os.path.basename(path): what follows the last "/"
basename(path) ==
    LET slashes == {i \in DOMAIN path : path[i] = "/"}
    IN  IF slashes = {} THEN path
        ELSE SubSeq(path, (CHOOSE i \in slashes : \A j \in slashes : j <= i) + 1, Len(path))

\* the page of the f-string: the page number in decimal, or N/A
page_str(metadata) == IF "page" \in DOMAIN metadata THEN <<ToString(metadata["page"])>> ELSE <<"N/A">>

source_info(doc) ==
    <<"Fonte: ">> \o basename(metadata_get(doc.metadata, "source", NA)) \o <<", Pagina: ">> \o page_str(doc.metadata)

\* a plausible slip: the score is written into the entry
context_entry_scored(doc, score) == doc.page_content \o <<"\n(">> \o source_info(doc) \o <<", Score: ", ToString(score), ")">>

\* the entry appended for one (doc, score)
context_entry(doc, score) == doc.page_content \o <<"\n(">> \o source_info(doc) \o <<")">>

\* a plausible slip: every entry is followed by the separator
format_context_trailing(results) ==
    LET ctx == [i \in DOMAIN results |-> context_entry(results[i][1], results[i][2]) \o <<SEP>>]
    IN  Join(ctx, <<>>)

\* format_context(docs_with_scores, verbose_print): the string returned
format_context(results) ==
    LET ctx == [i \in DOMAIN results |-> context_entry(results[i][1], results[i][2])]
    IN  Join(ctx, <<SEP>>)

Document(content, metadata) == [page_content |-> content, metadata |-> metadata]

DocA == Document(<<"a">>, [source |-> <<"dir", "/", "f.pdf">>, page |-> 0])

DocB == Document(<<>>, [page |-> 1])

DocC == Document(<<"b", SEP, "c">>, [source |-> <<"g.pdf">>])

\* similarity scores, as the store reports them
Scores == {1, 2}

\* all sequences over S of length at most n
SeqsUpTo(S, n) == UNION {[1..l -> S] : l \in 0..n}


(***************************************************************************)
(* DocumentSearcher                                                        *)
(***************************************************************************)

\* get_connection_string(): the f-string over the five variables
get_connection_string(environ) ==
    <<"postgresql+psycopg://", Str(getenv(environ, "POSTGRES_USER")), ":", Str(getenv(environ, "POSTGRES_PASSWORD")),
      "@", Str(getenv(environ, "POSTGRES_HOST")), ":", Str(getenv(environ, "POSTGRES_PORT")),
      "/", Str(getenv(environ, "POSTGRES_DB"))>>

InvalidProvider == Exception("ValueError", <<"Provedor invalido. Escolha 'google' ou 'openai'.">>, "None")

\* get_embeddings_model(provider, verbose): the client returned, or the exception raised
get_embeddings_model(p) ==
    IF p = "google" THEN [value |-> "GoogleGenerativeAIEmbeddings(models/embedding-001)", raised |-> NoException]
    ELSE IF p = "openai" THEN [value |-> "OpenAIEmbeddings(text-embedding-ada-002)", raised |-> NoException]
    ELSE [value |-> NoneVal, raised |-> InvalidProvider]

\* get_chat_model(provider, verbose) for the providers argparse lets through
get_chat_model(p) ==
    IF p = "google" THEN "ChatGoogleGenerativeAI(gemini-2.5-flash)" ELSE "ChatOpenAI(gpt-3.5-turbo)"

\* the collection_name default of DocumentSearcher
DefaultCollection == "documentos_pdf"

\* the k default of search_documents
DefaultK == 10

\* what an external call can fail with: the store, the embedding service, the chat model
ExternalError(type) == Exception(type, <<type>>, "None")

OpenErrors == {ExternalError("OperationalError")}

QueryErrors == {ExternalError("OperationalError"), ExternalError("EmbeddingError")}

LlmErrors == {ExternalError("APIError")}

EOFError == Exception("EOFError", <<"EOF when reading a line">>, "None")

KeyboardInterrupt == Exception("KeyboardInterrupt", <<>>, "None")

\* the classes that derive from Exception; KeyboardInterrupt derives from BaseException only
IsException(e) == e.type \notin {"None", "KeyboardInterrupt"}

\* a plausible slip: the constructor lets the store's error through as it is
ctor_nowrap(e) == e

\* the constructor's except clause: ConnectionError(...) from e
ctor_wrap(e) == Exception("ConnectionError", <<"Nao foi possivel conectar ao banco de dados: ">> \o e.msg, e.type)

\* a plausible slip: the validation's result is ignored
after_check_ignored(e) == "ctor_embeddings"

\* where the constructor goes after check_env_vars: an exception leaves it
after_check(e) == IF e # NoException THEN "ctor_failed" ELSE "ctor_embeddings"

\* the sequences of distinct rows of a collection of n rows, at most m long
RowSeqs(n, m) ==
    UNION {{r \in [1..l -> 1..n] : \A i, j \in 1..l : i # j => r[i] # r[j]} : l \in 0..(IF m < n THEN m ELSE n)}

\* db.similarity_search_with_score(query, k=k): up to k rows of the collection,
\* ranked and scored by the store, or an error of the store or the embedding service
StoreReplies(coll, k) ==
    UNION {{[docs |-> [i \in DOMAIN r |-> <<coll[r[i]], sc[i]>>], error |-> NoException] :
                sc \in [DOMAIN r -> Scores]} : r \in RowSeqs(Len(coll), k)}
    \cup {[docs |-> <<>>, error |-> e] : e \in QueryErrors}

Reverse(seq) == [i \in DOMAIN seq |-> seq[Len(seq) + 1 - i]]

\* a plausible slip: the results are re-ranked
search_documents_reranked(reply) == [reply EXCEPT !.docs = Reverse(reply.docs)]

\* search_documents(query, k): returns what the store returned, raises what it raised
search_documents(reply) == reply

(***************************************************************************)
(* chat: the lines of standard input                                       *)
(***************************************************************************)

Whitespace == {" ", "\t"}

lower_char(c) ==
    CASE c = "S" -> "s" [] c = "A" -> "a" [] c = "I" -> "i" [] c = "R" -> "r"
      [] c = "E" -> "e" [] c = "X" -> "x" [] c = "T" -> "t"
      [] c = "Q" -> "q" [] c = "U" -> "u" [] c = "O" -> "o"
      [] OTHER -> c

\* str.lower()
lower(line) == [i \in DOMAIN line |-> lower_char(line[i])]

RECURSIVE lstrip(_)
lstrip(line) == IF line # <<>> /\ Head(line) \in Whitespace THEN lstrip(Tail(line)) ELSE line

RECURSIVE rstrip(_)
rstrip(line) ==
    IF line # <<>> /\ line[Len(line)] \in Whitespace THEN rstrip(SubSeq(line, 1, Len(line) - 1)) ELSE line

\* str.strip()
strip(line) == rstrip(lstrip(line))

ExitTokens == {<<"s", "a", "i", "r">>, <<"e", "x", "i", "t">>, <<"q", "u", "i", "t">>}

\* a plausible slip: the comparison is case-sensitive
is_exit_case_sensitive(line) == line \in ExitTokens

\* question.lower() in ['sair', 'exit', 'quit']
is_exit(line) == lower(line) \in ExitTokens

\* not question.strip()
is_blank(line) == strip(line) = <<>>

\* the lines standard input may deliver
Lines ==
    { <<"s", "a", "i", "r">>, <<"S", "a", "I", "r">>, <<"E", "X", "I", "T">>, <<"q", "u", "i", "t">>,
      <<>>, <<" ", "\t">>, <<" ", "s", "a", "i", "r">>, <<"o", "i">> }

Farewell == <<"Encerrando o chat. Ate logo!">>

Responses == {"resposta"}

\* a plausible slip: a failed search is swallowed and the turn goes on
after_search_swallowed(reply) == "format"

\* where the turn goes after search_documents: an exception leaves the try block
after_search(reply) == IF reply.error # NoException THEN "except" ELSE "format"

\* a plausible slip: end-of-input ends the process instead of being reported
after_except_reraise(e) == IF e.type = "EOFError" THEN "terminated" ELSE "input"

\* where the loop goes after the except clause has printed the error
after_except(e) == "input"

(***************************************************************************)
(* SpecEnv: check_env_vars called once under every environment            *)
(***************************************************************************)

InitEnv ==
    /\ pc = "call"
    /\ env \in [EnvNames -> EnvValues]
    /\ provider \in Providers
    /\ ret = <<>>
    /\ raised = NoException
    /\ SearcherIdle
    /\ ChatIdle
    /\ docs_with_scores = <<>>
    /\ IngestIdle

CheckEnvVars ==
    /\ pc = "call"
    /\ raised' = check_env_vars(provider, env)
    /\ pc' = "returned"
    /\ UNCHANGED <<env, provider, ret, searcherVars, chatVars, docs_with_scores, ingestVars>>

NextEnv == CheckEnvVars

SpecEnv == InitEnv /\ [][NextEnv]_vars

\* a variable is missing when it is unset or set to the empty string
Absent(var) == env[var] = NoneVal \/ env[var] = ""

Unset(var) == env[var] = NoneVal

MissingDb == {i \in DOMAIN db_vars : Absent(db_vars[i])}

\* the j-th missing database variable, in the order of db_vars
NthMissing(j) == db_vars[CHOOSE i \in MissingDb : Cardinality({m \in MissingDb : m <= i}) = j]

ListsExactlyMissing ==
    /\ raised.type = "EnvironmentError"
    /\ Len(raised.msg) = 2 * Cardinality(MissingDb)
    /\ raised.msg[1] = DbMissingPrefix
    /\ \A j \in 1..Cardinality(MissingDb) : raised.msg[2 * j] = NthMissing(j)
    /\ \A j \in 1..(Cardinality(MissingDb) - 1) : raised.msg[2 * j + 1] = ", "

KeyCheck(isMissing(_)) ==
    /\ provider = "google" =>
        /\ isMissing("GOOGLE_API_KEY") => raised = Exception("EnvironmentError", GoogleKeyMsg, "None")
        /\ ~isMissing("GOOGLE_API_KEY") => raised = NoException
    /\ provider = "openai" =>
        /\ isMissing("OPENAI_API_KEY") => raised = Exception("EnvironmentError", OpenAIKeyMsg, "None")
        /\ ~isMissing("OPENAI_API_KEY") => raised = NoException
    /\ provider \notin Choices => raised = NoException

\* C4 as stated: the provider's key check fails iff the key is unset
C4_Original ==
    pc = "returned" =>
        /\ MissingDb # {} => ListsExactlyMissing
        /\ MissingDb = {} => KeyCheck(Unset)

\* C4 (amended): check_env_vars lists exactly the missing database variables in
\* the order of db_vars; with none missing it fails citing the provider's own
\* key iff that key is unset or empty, whatever the other key holds; and it
\* never changes the environment.
C4_CheckEnvVars ==
    /\ [](pc = "returned" =>
            /\ MissingDb # {} => ListsExactlyMissing
            /\ MissingDb = {} => KeyCheck(Absent))
    /\ [][env' = env /\ provider' = provider /\ ret' = ret]_vars

\* two database variables are missing, one unset and one empty, and the call has failed
C4_Witness ==
    /\ pc = "returned"
    /\ Unset("POSTGRES_PASSWORD") /\ env["POSTGRES_DB"] = ""
    /\ Cardinality(MissingDb) = 2
    /\ raised.type = "EnvironmentError"

(***************************************************************************)
(* SpecFormat: format_context called once on every small result sequence   *)
(***************************************************************************)

MaxDocs == 3

InitFormat ==
    /\ pc = "call"
    /\ env = [v \in EnvNames |-> "v"]
    /\ provider = "google"
    /\ ret = <<>>
    /\ raised = NoException
    /\ SearcherIdle
    /\ ChatIdle
    /\ docs_with_scores \in SeqsUpTo({DocA, DocB, DocC} \X Scores, MaxDocs)
    /\ IngestIdle

FormatContext ==
    /\ pc = "call"
    /\ context' = format_context(docs_with_scores)
    /\ pc' = "returned"
    /\ UNCHANGED <<env, provider, ret, raised, searcherVars, docs_with_scores, ingestVars>>
    /\ UNCHANGED <<llm, question, relevant_docs, response, printed, stdin_eof, lines_read, search_calls, llm_calls, search_outcome>>

NextFormat == FormatContext

SpecFormat == InitFormat /\ [][NextFormat]_vars

\* the rendered entry of the i-th result: chunk text, then the source/page suffix
Rendered(i) == context_entry(docs_with_scores[i][1], 0)

\* where the i-th entry starts in the joined string
RECURSIVE StartOf(_)
StartOf(i) == IF i = 1 THEN 1 ELSE StartOf(i - 1) + Len(Rendered(i - 1)) + 1

ZeroScores(results) == [i \in DOMAIN results |-> <<results[i][1], 0>>]

\* C8: format_context returns "" for no results; for n >= 1 results the rendered
\* entries stand in input order, one separator between neighbours, none before
\* the first or after the last; the scores do not change the string.
C8_FormatContext ==
    pc = "returned" =>
        LET n == Len(docs_with_scores)
        IN  /\ n = 0 => context = <<>>
            /\ n >= 1 =>
                /\ Len(context) = StartOf(n) + Len(Rendered(n)) - 1
                /\ \A i \in 1..n :
                    /\ SubSeq(context, StartOf(i), StartOf(i) + Len(Rendered(i)) - 1) = Rendered(i)
                    /\ LET text == docs_with_scores[i][1].page_content
                       IN  /\ SubSeq(Rendered(i), 1, Len(text)) = text
                           /\ Rendered(i)[Len(text) + 1] = "\n("
                           /\ Rendered(i)[Len(Rendered(i))] = ")"
                /\ \A i \in 2..n : context[StartOf(i) - 1] = SEP
            /\ context = format_context(ZeroScores(docs_with_scores))

\* three results with different scores, one of them holding the separator in its text
C8_Witness ==
    /\ pc = "returned"
    /\ Len(docs_with_scores) = 3
    /\ docs_with_scores[1] = <<DocC, 2>>
    /\ docs_with_scores[2] = <<DocA, 1>>
    /\ context # <<>>

(***************************************************************************)
(* Spec: a DocumentSearcher constructed and used, by a client of the class *)
(* (as the module's own test block does) or by chat's main                 *)
(***************************************************************************)

MaxRows == 2

MaxK == 2

MaxSearches == 2

MaxLines == 2

AllSet == [v \in EnvNames |-> "v"]

\* environments: complete, a database variable unset, a key empty, a key unset
SampleEnvs ==
    { AllSet,
      [AllSet EXCEPT !["POSTGRES_HOST"] = NoneVal],
      [AllSet EXCEPT !["GOOGLE_API_KEY"] = ""],
      [AllSet EXCEPT !["OPENAI_API_KEY"] = NoneVal] }

turnVars == <<question, relevant_docs, context, response, search_calls, llm_calls, search_outcome>>

Init ==
    /\ caller \in {"client", "chat"}
    /\ pc = IF caller = "chat" THEN "main_check" ELSE "ctor_check"
    /\ env \in SampleEnvs
    /\ provider \in IF caller = "chat" THEN Choices ELSE Providers
    /\ ret = <<>>
    /\ raised = NoException
    /\ self = NoSelf
    /\ events = <<>>
    /\ collection \in SeqsUpTo({DocA, DocB}, MaxRows)
    /\ store_reply = NoReply
    /\ last_k = 0
    /\ searches = 0
    /\ ChatIdle
    /\ docs_with_scores = <<>>
    /\ IngestIdle

\* chat.main: check_env_vars(args.provider), the configuration error printed
MainCheckEnv ==
    /\ pc = "main_check"
    /\ LET e == check_env_vars(provider, env)
       IN  IF e # NoException
           THEN printed' = <<"Erro de configuracao: ">> \o e.msg /\ pc' = "done"
           ELSE printed' = printed /\ pc' = "ctor_check"
    /\ UNCHANGED <<env, provider, ret, raised, searcherVars, llm, turnVars, stdin_eof, lines_read, docs_with_scores, ingestVars>>

\* DocumentSearcher.__init__: check_env_vars(provider)
CtorCheckEnv ==
    /\ pc = "ctor_check"
    /\ events' = Append(events, "check_env_vars")
    /\ LET e == check_env_vars(provider, env)
       IN  raised' = e /\ pc' = after_check(e)
    /\ UNCHANGED <<env, provider, ret, caller, self, collection, store_reply, last_k, searches, chatVars, docs_with_scores, ingestVars>>

\* DocumentSearcher.__init__: self.embeddings = get_embeddings_model(provider, verbose)
CtorGetEmbeddings ==
    /\ pc = "ctor_embeddings"
    /\ events' = Append(events, "get_embeddings_model")
    /\ LET r == get_embeddings_model(provider)
       IN  IF r.raised # NoException
           THEN raised' = r.raised /\ self' = self /\ pc' = "ctor_failed"
           ELSE raised' = raised /\ self' = [self EXCEPT !.embeddings = r.value] /\ pc' = "ctor_connection"
    /\ UNCHANGED <<env, provider, ret, caller, collection, store_reply, last_k, searches, chatVars, docs_with_scores, ingestVars>>

\* DocumentSearcher.__init__: the connection string and the collection name
CtorConnectionString ==
    /\ pc = "ctor_connection"
    /\ events' = Append(events, "get_connection_string")
    /\ self' = [self EXCEPT !.connection_string = get_connection_string(env), !.collection_name = DefaultCollection]
    /\ pc' = "ctor_open"
    /\ UNCHANGED <<env, provider, ret, raised, caller, collection, store_reply, last_k, searches, chatVars, docs_with_scores, ingestVars>>

\* DocumentSearcher.__init__: PGVector(...) inside the try block
CtorOpenStore ==
    /\ pc = "ctor_open"
    /\ events' = Append(events, "PGVector")
    /\ \E e \in {NoException} \cup OpenErrors :
        /\ store_reply' = [docs |-> <<>>, error |-> e]
        /\ IF e = NoException
           THEN self' = [self EXCEPT !.db = "PGVector"] /\ raised' = raised /\ pc' = "ready"
           ELSE self' = self /\ raised' = ctor_wrap(e) /\ pc' = "ctor_failed"
    /\ UNCHANGED <<env, provider, ret, caller, collection, last_k, searches, chatVars, docs_with_scores, ingestVars>>

\* chat.main: except (ConnectionError, ValueError) around the construction
MainInitFailed ==
    /\ pc = "ctor_failed"
    /\ caller = "chat"
    /\ raised.type \in {"ConnectionError", "ValueError"}
    /\ printed' = <<"Erro na inicializacao: ">> \o raised.msg
    /\ raised' = NoException
    /\ pc' = "done"
    /\ UNCHANGED <<env, provider, ret, searcherVars, llm, turnVars, stdin_eof, lines_read, docs_with_scores, ingestVars>>

\* chat.main: get_chat_model, the prompt, the chain and the banner
GetChatModel ==
    /\ pc = "ready"
    /\ caller = "chat"
    /\ llm' = get_chat_model(provider)
    /\ printed' = <<"Digite sua pergunta ou 'sair' para terminar.">>
    /\ pc' = "input"
    /\ UNCHANGED <<env, provider, ret, raised, searcherVars, turnVars, stdin_eof, lines_read, docs_with_scores, ingestVars>>

\* a client calls search_documents(query, k) on the constructed searcher
ClientSearch ==
    /\ pc = "ready"
    /\ caller = "client"
    /\ searches < MaxSearches
    /\ \E k \in 0..MaxK : \E reply \in StoreReplies(collection, k) :
        LET r == search_documents(reply)
        IN  /\ store_reply' = reply
            /\ last_k' = k
            /\ ret' = r.docs
            /\ raised' = r.error
    /\ searches' = searches + 1
    /\ UNCHANGED <<pc, env, provider, caller, self, events, collection, chatVars, docs_with_scores, ingestVars>>

\* chat.main, the loop: input() returns a line; the exit and blank tests
InputLine ==
    /\ pc = "input"
    /\ ~stdin_eof
    /\ lines_read < MaxLines
    /\ \E line \in Lines :
        /\ question' = line
        /\ IF is_exit(line) THEN printed' = Farewell /\ pc' = "done"
           ELSE IF is_blank(line) THEN printed' = printed /\ pc' = "input"
           ELSE printed' = printed /\ pc' = "search"
    /\ lines_read' = lines_read + 1
    /\ relevant_docs' = <<>> /\ context' = <<>> /\ response' = NoneVal
    /\ search_calls' = 0 /\ llm_calls' = 0 /\ search_outcome' = "none"
    /\ UNCHANGED <<env, provider, ret, raised, searcherVars, llm, stdin_eof, docs_with_scores, ingestVars>>

\* chat.main, the loop: input() at end-of-input raises EOFError
InputEOF ==
    /\ pc = "input"
    /\ stdin_eof' = TRUE
    /\ raised' = EOFError
    /\ pc' = "except"
    /\ relevant_docs' = <<>> /\ context' = <<>> /\ response' = NoneVal
    /\ search_calls' = 0 /\ llm_calls' = 0 /\ search_outcome' = "none"
    /\ UNCHANGED <<env, provider, ret, searcherVars, llm, question, printed, lines_read, docs_with_scores, ingestVars>>

\* chat.main, the loop: relevant_docs = searcher.search_documents(question)
SearchTurn ==
    /\ pc = "search"
    /\ \E reply \in StoreReplies(collection, DefaultK) :
        LET r == search_documents(reply)
        IN  /\ store_reply' = reply
            /\ last_k' = DefaultK
            /\ pc' = after_search(r)
            /\ IF r.error # NoException
               THEN raised' = r.error /\ search_outcome' = "raised" /\ relevant_docs' = relevant_docs /\ ret' = ret
               ELSE raised' = raised /\ search_outcome' = "returned" /\ relevant_docs' = r.docs /\ ret' = r.docs
    /\ search_calls' = search_calls + 1
    /\ UNCHANGED <<env, provider, caller, self, events, collection, searches, llm, question, context, response,
                   printed, stdin_eof, lines_read, llm_calls, docs_with_scores, ingestVars>>

\* chat.main, the loop: context = format_context(relevant_docs, ...) if relevant_docs else ""
FormatTurn ==
    /\ pc = "format"
    /\ context' = IF relevant_docs # <<>> THEN format_context(relevant_docs) ELSE <<>>
    /\ pc' = "invoke"
    /\ UNCHANGED <<env, provider, ret, raised, searcherVars, llm, question, relevant_docs, response, printed,
                   stdin_eof, lines_read, search_calls, llm_calls, search_outcome, docs_with_scores, ingestVars>>

\* chat.main, the loop: format_context raises on a result it cannot render
\* (metadata that is no mapping, a source that is no path)
FormatTurnRaises ==
    /\ pc = "format"
    /\ relevant_docs # <<>>
    /\ raised' = ExternalError("TypeError")
    /\ pc' = "except"
    /\ UNCHANGED <<env, provider, ret, searcherVars, llm, turnVars, printed, stdin_eof, lines_read, docs_with_scores, ingestVars>>

\* chat.main, the loop: response = chain.invoke(...), printed
InvokeTurn ==
    /\ pc = "invoke"
    /\ llm_calls' = llm_calls + 1
    /\ \/ \E r \in Responses :
            /\ response' = r
            /\ printed' = <<"Resposta:", r>>
            /\ raised' = raised
            /\ pc' = "input"
       \/ \E e \in LlmErrors :
            /\ raised' = e
            /\ pc' = "except"
            /\ UNCHANGED <<response, printed>>
    /\ UNCHANGED <<env, provider, ret, searcherVars, llm, question, relevant_docs, context, stdin_eof, lines_read,
                   search_calls, search_outcome, docs_with_scores, ingestVars>>

\* chat.main, the loop: except Exception as e: print(...)
ExceptTurn ==
    /\ pc = "except"
    /\ printed' = <<"Ocorreu um erro durante o chat: ">> \o raised.msg
    /\ pc' = after_except(raised)
    /\ raised' = IF after_except(raised) = "input" THEN NoException ELSE raised
    /\ UNCHANGED <<env, provider, ret, searcherVars, llm, turnVars, stdin_eof, lines_read, docs_with_scores, ingestVars>>

\* chat.main, the loop: Ctrl-C while input() or an external call blocks;
\* KeyboardInterrupt is no Exception, so the except clause lets it through
Interrupt ==
    /\ pc \in {"input", "search", "invoke"}
    /\ raised' = KeyboardInterrupt
    /\ search_calls' = IF pc = "search" THEN search_calls + 1 ELSE search_calls
    /\ search_outcome' = IF pc = "search" THEN "raised" ELSE search_outcome
    /\ llm_calls' = IF pc = "invoke" THEN llm_calls + 1 ELSE llm_calls
    /\ pc' = "terminated"
    /\ UNCHANGED <<env, provider, ret, searcherVars, llm, question, relevant_docs, context, response, printed,
                   stdin_eof, lines_read, docs_with_scores, ingestVars>>

Next ==
    \/ MainCheckEnv
    \/ CtorCheckEnv
    \/ CtorGetEmbeddings
    \/ CtorConnectionString
    \/ CtorOpenStore
    \/ MainInitFailed
    \/ GetChatModel
    \/ ClientSearch
    \/ InputLine
    \/ InputEOF
    \/ SearchTurn
    \/ FormatTurn
    \/ FormatTurnRaises
    \/ InvokeTurn
    \/ ExceptTurn
    \/ Interrupt

Spec == Init /\ [][Next]_vars

\* the interpreter runs the next statement whenever there is one
FairSpec == Spec /\ WF_vars(Next)

(***************************************************************************)
(* Properties of the chat loop                                             *)
(***************************************************************************)

\* the positions inside the try block of the loop
TryPcs == {"input", "search", "format", "invoke"}

LoopPcs == TryPcs \cup {"except"}

upper_char(c) ==
    CASE c = "s" -> "S" [] c = "a" -> "A" [] c = "i" -> "I" [] c = "r" -> "R"
      [] c = "e" -> "E" [] c = "x" -> "X" [] c = "t" -> "T"
      [] c = "q" -> "Q" [] c = "u" -> "U"
      [] OTHER -> c

\* the line is an exit token up to the case of its letters
IsExitLine(line) ==
    \E tok \in ExitTokens :
        /\ Len(line) = Len(tok)
        /\ \A i \in DOMAIN tok : line[i] = tok[i] \/ line[i] = upper_char(tok[i])

\* the line is empty or holds only whitespace
IsBlankLine(line) == \A i \in DOMAIN line : line[i] \in Whitespace

ErrorReport(e) == <<"Ocorreu um erro durante o chat: ">> \o e.msg

\* C1 as stated: whatever is raised inside a turn reaches the except clause
C1_Original ==
    [][(pc \in TryPcs /\ raised' # NoException) => pc' = "except"]_vars

\* C1 (amended): every exception deriving from Exception raised in a turn
\* (EOFError of input(), a failure of search_documents, of format_context or of
\* the chat model) reaches the except clause, which reports it and goes back to
\* the prompt; the loop is left only by an exit token or by a KeyboardInterrupt.
C1_TurnErrorsRecovered ==
    /\ [][(pc \in TryPcs /\ IsException(raised')) => pc' = "except"]_vars
    /\ [][pc = "except" => (pc' = "input" /\ printed' = ErrorReport(raised) /\ raised' = NoException)]_vars
    /\ [][(pc \in LoopPcs /\ pc' \notin LoopPcs) =>
            \/ pc = "input" /\ pc' = "done" /\ IsExitLine(question')
            \/ pc' = "terminated" /\ raised'.type = "KeyboardInterrupt"]_vars

\* a failed search has been reported and the loop is back at the prompt
C1_Witness ==
    /\ pc = "input"
    /\ search_outcome = "raised"
    /\ printed = ErrorReport(ExternalError("OperationalError"))
    /\ raised = NoException

\* C2: once an exit token has been read or standard input has reached
\* end-of-input, the loop eventually terminates.
C2_LoopTerminates ==
    [](((caller = "chat" /\ stdin_eof) \/ (pc = "done" /\ printed = Farewell)) => <>(pc \in {"done", "terminated"}))

\* C3: a turn whose line is an exit token or blank makes no search call and no
\* chat-model call; the exit token prints the farewell and ends the loop, the
\* blank line leaves the loop at the prompt.
C3_NoCallOnExitOrBlank ==
    (caller = "chat" /\ lines_read > 0) =>
        /\ (IsExitLine(question) \/ IsBlankLine(question)) =>
            /\ search_calls = 0
            /\ llm_calls = 0
            /\ pc \notin {"search", "format", "invoke"}
        /\ IsExitLine(question) => (pc = "done" /\ printed = Farewell)
        /\ (pc = "done" /\ printed = Farewell) => IsExitLine(question)
        /\ IsBlankLine(question) => pc \in {"input", "except", "terminated"}

\* an exit token in mixed case has ended the loop after an earlier line
C3_Witness ==
    /\ pc = "done"
    /\ question = <<"S", "a", "I", "r">>
    /\ lines_read = 2
    /\ printed = Farewell
    /\ search_calls = 0

\* C10: in a turn the search is called at most once and the chat model at most
\* once, the chat model only after the search has returned; a turn that printed
\* a response made exactly one call of each; a search that raised is followed by
\* no chat-model call.
C10_OneCallEachInSequence ==
    caller = "chat" =>
        /\ search_calls <= 1
        /\ llm_calls <= 1
        /\ llm_calls = 1 => (search_calls = 1 /\ search_outcome = "returned")
        /\ pc = "search" => (search_calls = 0 /\ llm_calls = 0)
        /\ pc \in {"format", "invoke"} => (search_calls = 1 /\ llm_calls = 0 /\ search_outcome = "returned")
        /\ search_outcome = "raised" => llm_calls = 0
        /\ response # NoneVal => (search_calls = 1 /\ llm_calls = 1)

\* a turn over an empty result has printed the chat model's response
C10_Witness ==
    /\ pc = "input"
    /\ response = "resposta"
    /\ relevant_docs = <<>>
    /\ search_calls = 1
    /\ llm_calls = 1

(***************************************************************************)
(* Properties of the DocumentSearcher                                      *)
(***************************************************************************)

\* C5: search_documents returns exactly what the store returned, in its order
\* and with its scores, so never more than k entries; with k = 0 or an empty
\* collection the result is empty; it raises only if the store call raised.
C5_PassThrough ==
    /\ (caller = "client" /\ searches > 0) =>
        /\ raised = store_reply.error
        /\ ret = store_reply.docs
        /\ Len(ret) <= last_k
        /\ (last_k = 0 \/ collection = <<>>) => ret = <<>>
    /\ (caller = "chat" /\ search_outcome = "returned") =>
        /\ relevant_docs = store_reply.docs
        /\ Len(relevant_docs) <= DefaultK

\* a search with k = 2 returned the two equal rows of the collection, with different scores
C5_Witness ==
    /\ caller = "client"
    /\ searches > 0
    /\ last_k = 2
    /\ collection = <<DocA, DocA>>
    /\ ret = <<(<<DocA, 1>>), (<<DocA, 2>>)>>

CtorOrder == <<"check_env_vars", "get_embeddings_model", "get_connection_string", "PGVector">>

\* the environment fails the validation of the provider
InvalidEnv ==
    \/ MissingDb # {}
    \/ provider = "google" /\ Absent("GOOGLE_API_KEY")
    \/ provider = "openai" /\ Absent("OPENAI_API_KEY")

\* C6: the constructor validates first, then resolves the embedding client, then
\* the connection string, then opens the store, once; when the validation fails
\* it raises the configuration error having made no other call.
C6_CtorFailFast ==
    /\ Len(events) <= Len(CtorOrder)
    /\ \A i \in DOMAIN events : events[i] = CtorOrder[i]
    /\ InvalidEnv =>
        /\ self = NoSelf
        /\ events # <<>> => (events = <<"check_env_vars">> /\ pc = "ctor_failed" /\ raised.type = "EnvironmentError")
    /\ pc = "ready" => events = CtorOrder

\* the constructor was called with a database variable unset and has raised
C6_Witness ==
    /\ caller = "client"
    /\ pc = "ctor_failed"
    /\ Unset("POSTGRES_HOST")
    /\ events = <<"check_env_vars">>
    /\ raised.type = "EnvironmentError"

\* C7: a failure to open the store leaves the constructor as a ConnectionError
\* wrapping the cause; a failure during a query reaches the caller as the error
\* the store raised; the searcher's attributes never change after construction.
C7_WrappingOnlyInCtor ==
    /\ []((pc = "ctor_failed" /\ Len(events) = Len(CtorOrder)) =>
            /\ raised.type = "ConnectionError"
            /\ raised.cause = store_reply.error.type
            /\ raised.msg = <<"Nao foi possivel conectar ao banco de dados: ">> \o store_reply.error.msg)
    /\ []((caller = "client" /\ searches > 0) => raised = store_reply.error)
    /\ []((caller = "chat" /\ pc = "except" /\ search_outcome = "raised") => raised = store_reply.error)
    /\ [][self.db # NoneVal => self' = self]_vars

\* the second search of a client has failed with the store's own error
C7_Witness ==
    /\ caller = "client"
    /\ searches = 2
    /\ raised = ExternalError("OperationalError")
    /\ self.db = "PGVector"

(***************************************************************************)
(* SpecIngest: runs of ingest's main, one after the other, into the store  *)
(***************************************************************************)

MaxRuns == 2

\* RecursiveCharacterTextSplitter(chunk_size=1000, chunk_overlap=150)
chunk_size == 1000

chunk_overlap == 150

\* a page as PyPDFLoader yields it: its metadata and the length of its text
PdfPage(source, page, length) == [source |-> source, page |-> page, length |-> length]

\* the file system: what PyPDFLoader(path).load() does for each path
Paths == {"document.pdf", "small.pdf", "missing.pdf", "broken.pdf"}

load(path) ==
    CASE path = "document.pdf" ->
            [pages |-> <<PdfPage(path, 0, 1700), PdfPage(path, 1, 400)>>, raised |-> NoException]
      [] path = "small.pdf" ->
            [pages |-> <<PdfPage(path, 0, 900)>>, raised |-> NoException]
      [] path = "missing.pdf" ->
            [pages |-> <<>>, raised |-> ExternalError("FileNotFoundError")]
      [] OTHER ->
            [pages |-> <<>>, raised |-> ExternalError("PdfReadError")]

\* the windows of one page: chunk_size long, consecutive windows sharing chunk_overlap
RECURSIVE windows(_, _)
windows(page, start) ==
    IF start + chunk_size >= page.length
    THEN <<[source |-> page.source, page |-> page.page, start |-> start, stop |-> page.length]>>
    ELSE <<[source |-> page.source, page |-> page.page, start |-> start, stop |-> start + chunk_size]>>
         \o windows(page, start + chunk_size - chunk_overlap)

\* text_splitter.split_documents(docs): every page cut into its windows
RECURSIVE split_documents(_)
split_documents(pages) ==
    IF pages = <<>> THEN <<>>
    ELSE (IF Head(pages).length = 0 THEN <<>> ELSE windows(Head(pages), 0)) \o split_documents(Tail(pages))

\* the rows from_documents writes: each chunk with the embedding of the run's model
rows_of(chunks, embeddings) == [i \in DOMAIN chunks |-> [chunk |-> chunks[i], embedding |-> embeddings]]

\* a plausible slip: pre_delete_collection left out, the rows are added to the old ones
from_documents_incremental(old, rows) == old \o rows

\* PGVector.from_documents(..., pre_delete_collection=True) when it succeeds
from_documents(old, rows) == rows

\* PGVector.from_documents when it fails: before the collection was deleted
\* (the embedding service or the connection failed) or after it
WriteFailures == {"before_delete", "after_delete"}

IngestEnvs == {AllSet, [AllSet EXCEPT !["POSTGRES_DB"] = NoneVal]}

InitIngest ==
    /\ pc = "idle"
    /\ env = AllSet
    /\ provider = "google"
    /\ ret = <<>>
    /\ raised = NoException
    /\ SearcherIdle
    /\ ChatIdle
    /\ docs_with_scores = <<>>
    /\ IngestIdle

ingestUnused == <<provider, ret, searcherVars, llm, turnVars, stdin_eof, lines_read, docs_with_scores>>

\* a new process: load_dotenv() and parser.parse_args()
IngestStart ==
    /\ pc = "idle"
    /\ runs < MaxRuns
    /\ runs' = runs + 1
    /\ env' \in IngestEnvs
    /\ args' \in [provider : Choices, path : Paths, collection : CollectionNames]
    /\ docs' = <<>> /\ split_docs' = <<>>
    /\ store_calls' = 0
    /\ status' = "running"
    /\ raised' = NoException
    /\ printed' = <<>>
    /\ pc' = "ingest_check"
    /\ UNCHANGED <<ingestUnused, collections, last_completed, dirty>>

\* ingest.main: check_env_vars(args.provider), the configuration error printed
IngestCheckEnv ==
    /\ pc = "ingest_check"
    /\ LET e == check_env_vars(args.provider, env)
       IN  IF e # NoException
           THEN printed' = <<"Erro de configuracao: ">> \o e.msg /\ status' = "config_error" /\ pc' = "idle"
           ELSE printed' = printed /\ status' = status /\ pc' = "ingest_load"
    /\ UNCHANGED <<env, raised, ingestUnused, args, docs, split_docs, collections, store_calls, runs, last_completed, dirty>>

\* ingest.main: PyPDFLoader(args.path).load() and its two except clauses
IngestLoad ==
    /\ pc = "ingest_load"
    /\ LET r == load(args.path)
       IN  IF r.raised.type = "FileNotFoundError"
           THEN /\ printed' = <<"Erro: O arquivo '", args.path, "' nao foi encontrado.">>
                /\ status' = "not_found" /\ pc' = "idle" /\ docs' = docs
           ELSE IF r.raised # NoException
           THEN /\ printed' = <<"Ocorreu um erro ao ler o PDF: ">> \o r.raised.msg
                /\ status' = "read_error" /\ pc' = "idle" /\ docs' = docs
           ELSE /\ printed' = printed /\ status' = status /\ pc' = "ingest_split" /\ docs' = r.pages
    /\ UNCHANGED <<env, raised, ingestUnused, args, split_docs, collections, store_calls, runs, last_completed, dirty>>

\* ingest.main: the split, the embeddings model and the connection string
IngestSplit ==
    /\ pc = "ingest_split"
    /\ split_docs' = split_documents(docs)
    /\ pc' = "ingest_write"
    /\ UNCHANGED <<env, raised, ingestUnused, printed, args, docs, collections, store_calls, status, runs, last_completed, dirty>>

\* ingest.main: PGVector.from_documents(..., pre_delete_collection=True) returns
IngestWrite ==
    /\ pc = "ingest_write"
    /\ LET rows == rows_of(split_docs, get_embeddings_model(args.provider).value)
       IN  /\ collections' = [collections EXCEPT ![args.collection] = from_documents(@, rows)]
           /\ last_completed' = [last_completed EXCEPT ![args.collection] = rows]
    /\ dirty' = [dirty EXCEPT ![args.collection] = FALSE]
    /\ store_calls' = store_calls + 1
    /\ printed' = <<"Processo de ingestao concluido com sucesso!">>
    /\ status' = "completed"
    /\ pc' = "idle"
    /\ UNCHANGED <<env, raised, ingestUnused, args, docs, split_docs, runs>>

\* ingest.main: PGVector.from_documents raises; nothing catches it and the run
\* ends with the traceback, the collection already deleted or not yet
IngestWriteFails ==
    /\ pc = "ingest_write"
    /\ \E f \in WriteFailures :
        IF f = "after_delete"
        THEN /\ collections' = [collections EXCEPT ![args.collection] = <<>>]
             /\ dirty' = [dirty EXCEPT ![args.collection] = TRUE]
        ELSE UNCHANGED <<collections, dirty>>
    /\ store_calls' = store_calls + 1
    /\ raised' = ExternalError("OperationalError")
    /\ status' = "crashed"
    /\ pc' = "idle"
    /\ UNCHANGED <<env, ingestUnused, printed, args, docs, split_docs, runs, last_completed>>

NextIngest ==
    \/ IngestStart
    \/ IngestCheckEnv
    \/ IngestLoad
    \/ IngestSplit
    \/ IngestWrite
    \/ IngestWriteFails

SpecIngest == InitIngest /\ [][NextIngest]_vars

\* C9 as stated: whatever runs happened, every collection holds the rows of the
\* last run into it that completed
C9_Original ==
    \A n \in CollectionNames : collections[n] = last_completed[n]

\* the runs that abort before the store is touched
AbortedEarly == {"config_error", "not_found", "read_error"}

\* C9 (amended): every collection holds exactly the rows of the last run into it
\* that completed, unless a later run into it failed inside the store write,
\* which may have deleted it; a completed run replaces the collection by its own
\* chunks; a run that ends with a configuration, file-not-found or read error
\* has made no call that writes to the store and leaves every collection as it was.
C9_ReplaceOrUntouched ==
    /\ [](\A n \in CollectionNames :
            \/ collections[n] = last_completed[n]
            \/ dirty[n] /\ collections[n] = <<>>)
    /\ [](status = "completed" =>
            /\ collections[args.collection] = rows_of(split_documents(load(args.path).pages), get_embeddings_model(args.provider).value)
            /\ args.path = "document.pdf" => Len(collections[args.collection]) = 3
            /\ args.path = "small.pdf" => Len(collections[args.collection]) = 1)
    /\ [](status \in AbortedEarly => store_calls = 0)
    /\ [][collections' # collections => (pc = "ingest_write" /\ store_calls' = store_calls + 1)]_vars
    /\ [][\A n \in CollectionNames : n # args.collection => collections'[n] = collections[n]]_vars

\* a second run into a filled collection has ended with file-not-found and the
\* rows of the first run are still there
C9_Witness ==
    /\ runs = 2
    /\ status = "not_found"
    /\ Len(collections[args.collection]) = 3
    /\ collections[args.collection] = last_completed[args.collection]

====
